---------------------------- MODULE Spec2Model ----------------------------
(***************************************************************************)
(* A model of bbbase64 (src/src/lib.rs): an allocation-free base64 codec   *)
(* without padding.  The crate is a set of pure functions over caller      *)
(* supplied slices; the state of the model is one call of one of them:     *)
(* the function called, its input slice, the output slice before and after *)
(* the call, and the value returned.                                       *)
(***************************************************************************)
EXTENDS Integers, Sequences, FiniteSets

VARIABLES
    op,     \* the call made: "init" before any call, else the function(s) applied
    data,   \* the input slice of the (last) call
    pre,    \* the output slice as the caller handed it in
    out,    \* the output slice when the call returned
    res,    \* the value returned: "" before a call, "Ok", or the Err message
    orig    \* for a call chained on a previous call's output: that call's input

vars == <<op, data, pre, out, res, orig>>

---------------------------------------------------------------------------
(* Bounds of the model (not program constants). *)

\* longest raw input handed to encode (two 3-byte chunks)
MaxEncLen == 6
\* longest text handed to decode (two 4-byte chunks)
MaxDecLen == 8
\* longest output slice a caller hands in
MaxOutLen == 9

\* raw bytes the encode inputs are drawn from
EncBytes == {0, 1, 2, 255}
\* text bytes the decode inputs are drawn from: '/', 'B', and the padding '='
DecChars == {47, 66, 61}
\* a second family of texts: 'z' and the space
MoreChars == {122, 32}
\* values the caller's output slice is pre-filled with
Fills == {0, 170}
\* bytes the bit packer's 3-byte chunks are drawn from
TripleBytes == {0, 1, 2, 3, 4, 7, 8, 15, 16, 31, 32, 48, 63, 64, 65, 85,
                96, 127, 128, 129, 170, 171, 192, 193, 224, 240, 248, 252,
                253, 254, 255, 100}
\* bytes the bit packer's 4-byte chunks are drawn from: 6-bit values, and two
\* values that are not
QuadBytes == {0, 1, 2, 3, 4, 15, 16, 21, 31, 32, 42, 48, 62, 63, 64, 255}

---------------------------------------------------------------------------
(* u8 arithmetic. *)

Byte == 0..255

Pow2(k) == IF k = 0 THEN 1 ELSE IF k = 1 THEN 2 ELSE IF k = 2 THEN 4
           ELSE IF k = 3 THEN 8 ELSE IF k = 4 THEN 16 ELSE IF k = 5 THEN 32
           ELSE IF k = 6 THEN 64 ELSE IF k = 7 THEN 128 ELSE 256

\* u8 >> k
Shr(a, k) == a \div Pow2(k)

\* u8 << k: bits shifted past bit 7 are discarded
Shl(a, k) == (a * Pow2(k)) % 256

RECURSIVE BitAnd(_, _)
BitAnd(a, b) ==
    IF a = 0 \/ b = 0 THEN 0
    ELSE (a % 2) * (b % 2) + 2 * BitAnd(a \div 2, b \div 2)

RECURSIVE BitOr(_, _)
BitOr(a, b) ==
    IF a = 0 THEN b
    ELSE IF b = 0 THEN a
    ELSE (IF a % 2 = 1 \/ b % 2 = 1 THEN 1 ELSE 0) + 2 * BitOr(a \div 2, b \div 2)

saturating_add(a, b) == IF a + b > 255 THEN 255 ELSE a + b

saturating_sub(a, b) == IF a - b < 0 THEN 0 ELSE a - b

---------------------------------------------------------------------------
(* Result<u8, &'static str> and Result<(), &'static str>. *)

OkStr == "Ok"

Ok(v) == [ok |-> TRUE, val |-> v, err |-> OkStr]

Err(m) == [ok |-> FALSE, val |-> 0, err |-> m]

ErrInvalidIndex == "Invalid ascii character index encountered"
ErrInvalidChar == "Invalid base64 char encountered"
ErrEncInputLen == "Input data must be a multiple of 3 bytes"
ErrEncOutputLen == "Output data length should be 4/3 input data length"
ErrDecInputLen == "Input data must be a multiple of 4 bytes"
ErrDecOutputLen == "Output data length should be 3/4 input data length"

---------------------------------------------------------------------------
(* Symbol mapper. *)

UPPERCASEOFFSET == 65
LOWERCASEOFFSET == 71
DIGITOFFSET == 4

\* index_to_char with the digit offset added instead of subtracted
index_to_char_DigitsAdded(index) ==
    IF index \in 0..25 THEN Ok(saturating_add(index, UPPERCASEOFFSET))
    ELSE IF index \in 26..51 THEN Ok(saturating_add(index, LOWERCASEOFFSET))
    ELSE IF index \in 52..61 THEN Ok(saturating_add(index, DIGITOFFSET))
    ELSE IF index = 62 THEN Ok(43)
    ELSE IF index = 63 THEN Ok(47)
    ELSE Err(ErrInvalidIndex)

index_to_char(index) ==
    IF index \in 0..25 THEN Ok(saturating_add(index, UPPERCASEOFFSET))
    ELSE IF index \in 26..51 THEN Ok(saturating_add(index, LOWERCASEOFFSET))
    ELSE IF index \in 52..61 THEN Ok(saturating_sub(index, DIGITOFFSET))
    ELSE IF index = 62 THEN Ok(43)
    ELSE IF index = 63 THEN Ok(47)
    ELSE Err(ErrInvalidIndex)

\* char_to_index taking the padding '=' (61) for index 0
char_to_index_PaddingAccepted(c) ==
    IF c \in 65..90 THEN Ok(saturating_sub(c, UPPERCASEOFFSET))
    ELSE IF c \in 97..122 THEN Ok(saturating_sub(c, LOWERCASEOFFSET))
    ELSE IF c \in 48..57 THEN Ok(saturating_add(c, DIGITOFFSET))
    ELSE IF c = 43 THEN Ok(62)
    ELSE IF c = 47 THEN Ok(63)
    ELSE IF c = 61 THEN Ok(0)
    ELSE Err(ErrInvalidChar)

char_to_index(c) ==
    IF c \in 65..90 THEN Ok(saturating_sub(c, UPPERCASEOFFSET))
    ELSE IF c \in 97..122 THEN Ok(saturating_sub(c, LOWERCASEOFFSET))
    ELSE IF c \in 48..57 THEN Ok(saturating_add(c, DIGITOFFSET))
    ELSE IF c = 43 THEN Ok(62)
    ELSE IF c = 47 THEN Ok(63)
    ELSE Err(ErrInvalidChar)

---------------------------------------------------------------------------
(* Bit packer.  chunk is a slice of 3 (split) or 4 (combine) bytes; TLA+    *)
(* sequences are 1-based, so chunk[0] of the source is chunk[1] here.      *)

\* split_bytes with the second value's shift one bit short
split_bytes_ShortShift(chunk) ==
    << Shr(chunk[1], 2),
       BitOr(Shl(BitAnd(chunk[1], 3), 3), Shr(chunk[2], 4)),
       BitOr(Shl(BitAnd(chunk[2], 15), 2), Shr(chunk[3], 6)),
       BitAnd(chunk[3], 63) >>

\* split_bytes with the last value left unmasked
split_bytes_Unmasked(chunk) ==
    << Shr(chunk[1], 2),
       BitOr(Shl(BitAnd(chunk[1], 3), 4), Shr(chunk[2], 4)),
       BitOr(Shl(BitAnd(chunk[2], 15), 2), Shr(chunk[3], 6)),
       chunk[3] >>

split_bytes(chunk) ==
    << Shr(chunk[1], 2),
       BitOr(Shl(BitAnd(chunk[1], 3), 4), Shr(chunk[2], 4)),
       BitOr(Shl(BitAnd(chunk[2], 15), 2), Shr(chunk[3], 6)),
       BitAnd(chunk[3], 63) >>

\* combine_bytes with the middle byte's mask one bit short
combine_bytes_ShortMask(chunk) ==
    << BitOr(Shl(BitAnd(chunk[1], 63), 2), Shr(chunk[2], 4)),
       BitOr(Shl(BitAnd(chunk[2], 7), 4), Shr(chunk[3], 2)),
       BitOr(Shl(BitAnd(chunk[3], 3), 6), BitAnd(chunk[4], 63)) >>

\* combine_bytes with the last byte's shift two bits short
combine_bytes_ShortShift(chunk) ==
    << BitOr(Shl(BitAnd(chunk[1], 63), 2), Shr(chunk[2], 4)),
       BitOr(Shl(BitAnd(chunk[2], 15), 4), Shr(chunk[3], 2)),
       BitOr(Shl(BitAnd(chunk[3], 3), 4), BitAnd(chunk[4], 63)) >>

combine_bytes(chunk) ==
    << BitOr(Shl(BitAnd(chunk[1], 63), 2), Shr(chunk[2], 4)),
       BitOr(Shl(BitAnd(chunk[2], 15), 4), Shr(chunk[3], 2)),
       BitOr(Shl(BitAnd(chunk[3], 3), 6), BitAnd(chunk[4], 63)) >>

---------------------------------------------------------------------------
(* Codec driver. *)

\* &s[from..from+n] of a slice, with from 0-based as in the source
Slice(s, from, n) == [i \in 1..n |-> s[from + i]]

\* encode's inner loop `for i in 0..4 { o[i] = index_to_char(expanded[i])?; }`
\* from index i on, o being out[4*j..4*j+4]
RECURSIVE EncodeChunk(_, _, _, _)
EncodeChunk(o, j, expanded, i) ==
    IF i = 4 THEN [res |-> OkStr, out |-> o]
    ELSE LET r == index_to_char(expanded[i + 1])
         IN  IF r.ok
             THEN EncodeChunk([o EXCEPT ![4 * j + i + 1] = r.val], j, expanded, i + 1)
             ELSE [res |-> r.err, out |-> o]

\* encode's outer loop `for j in 0..nchunks` from chunk j on
RECURSIVE EncodeLoop(_, _, _, _)
EncodeLoop(d, o, j, nchunks) ==
    IF j >= nchunks THEN [res |-> OkStr, out |-> o]
    ELSE LET r == EncodeChunk(o, j, split_bytes(Slice(d, 3 * j, 3)), 0)
         IN  IF r.res = OkStr THEN EncodeLoop(d, r.out, j + 1, nchunks) ELSE r

\* encode checking the output length before the input length
encode_OutputFirst(d, o) ==
    LET nin == Len(d)
        nout == Len(o)
        nchunks == nin \div 3
    IN  IF nout # (nin * 4) \div 3 THEN [res |-> ErrEncOutputLen, out |-> o]
        ELSE IF nin % 3 # 0 THEN [res |-> ErrEncInputLen, out |-> o]
        ELSE EncodeLoop(d, o, 0, nchunks)

\* encode accepting an output slice longer than needed
encode_LongOutput(d, o) ==
    LET nin == Len(d)
        nout == Len(o)
        nchunks == nin \div 3
    IN  IF nin % 3 # 0 THEN [res |-> ErrEncInputLen, out |-> o]
        ELSE IF nout < (nin * 4) \div 3 THEN [res |-> ErrEncOutputLen, out |-> o]
        ELSE EncodeLoop(d, o, 0, nchunks)

encode(d, o) ==
    LET nin == Len(d)
        nout == Len(o)
        nchunks == nin \div 3
    IN  IF nin % 3 # 0 THEN [res |-> ErrEncInputLen, out |-> o]
        ELSE IF nout # (nin * 4) \div 3 THEN [res |-> ErrEncOutputLen, out |-> o]
        ELSE EncodeLoop(d, o, 0, nchunks)

\* decode's inner loop `for i in 0..4 { converted[i] = char_to_index(d[i])?; }`
\* from index i on; d is the 4-byte input chunk
RECURSIVE DecodeChunk(_, _, _)
DecodeChunk(d, converted, i) ==
    IF i = 4 THEN [res |-> OkStr, converted |-> converted]
    ELSE LET r == char_to_index(d[i + 1])
         IN  IF r.ok
             THEN DecodeChunk(d, [converted EXCEPT ![i + 1] = r.val], i + 1)
             ELSE [res |-> r.err, converted |-> converted]

\* decode's outer loop `for j in 0..nchunks` from chunk j on; converted is
\* the scratch array declared before the loop
RECURSIVE DecodeLoop(_, _, _, _, _)
DecodeLoop(d, o, converted, j, nchunks) ==
    IF j >= nchunks THEN [res |-> OkStr, out |-> o]
    ELSE LET r == DecodeChunk(Slice(d, 4 * j, 4), converted, 0)
         IN  IF r.res = OkStr
             THEN LET combined == combine_bytes(r.converted)
                      o2 == [k \in 1..Len(o) |->
                                IF k \in (3 * j + 1)..(3 * j + 3)
                                THEN combined[k - 3 * j] ELSE o[k]]
                  IN  DecodeLoop(d, o2, r.converted, j + 1, nchunks)
             ELSE [res |-> r.res, out |-> o]

\* decode skipping the last chunk
decode_LastChunkSkipped(d, o) ==
    LET nin == Len(d)
        nout == Len(o)
        nchunks == nin \div 4
    IN  IF nin % 4 # 0 THEN [res |-> ErrDecInputLen, out |-> o]
        ELSE IF nout # (nin * 3) \div 4 THEN [res |-> ErrDecOutputLen, out |-> o]
        ELSE DecodeLoop(d, o, <<0, 0, 0, 0>>, 0, nchunks - 1)

\* decode zeroing the output chunk of the input chunk that fails
decode_FailingChunkWritten(d, o) ==
    LET nin == Len(d)
        nout == Len(o)
        nchunks == nin \div 4
        r == DecodeLoop(d, o, <<0, 0, 0, 0>>, 0, nchunks)
        k == CHOOSE j \in 0..nchunks :
                 /\ \A i \in 1..(4 * j) : char_to_index(d[i]).ok
                 /\ j < nchunks => \E i \in (4 * j + 1)..(4 * j + 4) : ~char_to_index(d[i]).ok
    IN  IF nin % 4 # 0 THEN [res |-> ErrDecInputLen, out |-> o]
        ELSE IF nout # (nin * 3) \div 4 THEN [res |-> ErrDecOutputLen, out |-> o]
        ELSE IF r.res = OkStr THEN r
        ELSE [res |-> r.res,
              out |-> [i \in 1..nout |->
                          IF i \in (3 * k + 1)..(3 * k + 3) THEN 0 ELSE r.out[i]]]

decode(d, o) ==
    LET nin == Len(d)
        nout == Len(o)
        nchunks == nin \div 4
    IN  IF nin % 4 # 0 THEN [res |-> ErrDecInputLen, out |-> o]
        ELSE IF nout # (nin * 3) \div 4 THEN [res |-> ErrDecOutputLen, out |-> o]
        ELSE DecodeLoop(d, o, <<0, 0, 0, 0>>, 0, nchunks)

---------------------------------------------------------------------------
(* The callers: what slices the functions are handed. *)

SeqsUpTo(S, n) == UNION {[1..k -> S] : k \in 0..n}

\* an output slice of length n as the tests allocate it: one value repeated
Buffer(n, f) == [i \in 1..n |-> f]

OutBufs == {Buffer(n, f) : n \in 0..MaxOutLen, f \in Fills}

Inputs ==
    SeqsUpTo(EncBytes, MaxEncLen) \cup SeqsUpTo(DecChars, MaxDecLen)
        \cup SeqsUpTo(MoreChars, MaxDecLen)

Init ==
    /\ op = "init"
    /\ data \in Inputs
    /\ pre = <<>>
    /\ out = <<>>
    /\ res = ""
    /\ orig = <<>>

\* encode(data, o) on a fresh input
Encode ==
    /\ op = "init"
    /\ \E o \in OutBufs :
         LET r == encode(data, o)
         IN  /\ op' = "encode"
             /\ pre' = o
             /\ out' = r.out
             /\ res' = r.res
    /\ UNCHANGED <<data, orig>>

\* decode(data, o) on a fresh input
Decode ==
    /\ op = "init"
    /\ \E o \in OutBufs :
         LET r == decode(data, o)
         IN  /\ op' = "decode"
             /\ pre' = o
             /\ out' = r.out
             /\ res' = r.res
    /\ UNCHANGED <<data, orig>>

\* decode(out, back) on the text a successful encode produced
DecodeEncoded ==
    /\ op = "encode"
    /\ res = OkStr
    /\ \E o \in OutBufs :
         LET r == decode(out, o)
         IN  /\ op' = "encode_decode"
             /\ orig' = data
             /\ data' = out
             /\ pre' = o
             /\ out' = r.out
             /\ res' = r.res

\* encode(out, back) on the bytes a successful decode produced
EncodeDecoded ==
    /\ op = "decode"
    /\ res = OkStr
    /\ \E o \in OutBufs :
         LET r == encode(out, o)
         IN  /\ op' = "decode_encode"
             /\ orig' = data
             /\ data' = out
             /\ pre' = o
             /\ out' = r.out
             /\ res' = r.res

Next == Encode \/ Decode \/ DecodeEncoded \/ EncodeDecoded

Spec == Init /\ [][Next]_vars

---------------------------------------------------------------------------
(* The symbol mapper called on its own, on every byte. *)

InitMapper ==
    /\ op = "init"
    /\ data \in [1..1 -> Byte]
    /\ pre = <<>>
    /\ out = <<>>
    /\ res = ""
    /\ orig = <<>>

\* the value a Result<u8, _> holds, as a slice: empty for an Err
Returned(r) == IF r.ok THEN <<r.val>> ELSE <<>>

IndexToChar ==
    /\ op = "init"
    /\ LET r == index_to_char(data[1])
       IN  /\ op' = "index_to_char"
           /\ out' = Returned(r)
           /\ res' = r.err
    /\ UNCHANGED <<data, pre, orig>>

CharToIndex ==
    /\ op = "init"
    /\ LET r == char_to_index(data[1])
       IN  /\ op' = "char_to_index"
           /\ out' = Returned(r)
           /\ res' = r.err
    /\ UNCHANGED <<data, pre, orig>>

\* char_to_index(index_to_char(i).unwrap()), as test_character_mapping calls it
CharToIndexOfChar ==
    /\ op = "index_to_char"
    /\ res = OkStr
    /\ LET r == char_to_index(out[1])
       IN  /\ op' = "index_to_char_to_index"
           /\ orig' = data
           /\ data' = out
           /\ out' = Returned(r)
           /\ res' = r.err
    /\ UNCHANGED pre

\* index_to_char(char_to_index(c).unwrap())
IndexToCharOfIndex ==
    /\ op = "char_to_index"
    /\ res = OkStr
    /\ LET r == index_to_char(out[1])
       IN  /\ op' = "char_to_index_to_char"
           /\ orig' = data
           /\ data' = out
           /\ out' = Returned(r)
           /\ res' = r.err
    /\ UNCHANGED pre

NextMapper == IndexToChar \/ CharToIndex \/ CharToIndexOfChar \/ IndexToCharOfIndex

SpecMapper == InitMapper /\ [][NextMapper]_vars

---------------------------------------------------------------------------
(* The bit packer called on its own, on 3- and 4-byte chunks. *)

InitPacker ==
    /\ op = "init"
    /\ data \in [1..3 -> TripleBytes] \cup [1..4 -> QuadBytes]
    /\ pre = <<>>
    /\ out = <<>>
    /\ res = ""
    /\ orig = <<>>

SplitBytes ==
    /\ op = "init"
    /\ Len(data) = 3
    /\ op' = "split_bytes"
    /\ out' = split_bytes(data)
    /\ res' = OkStr
    /\ UNCHANGED <<data, pre, orig>>

CombineBytes ==
    /\ op = "init"
    /\ Len(data) = 4
    /\ op' = "combine_bytes"
    /\ out' = combine_bytes(data)
    /\ res' = OkStr
    /\ UNCHANGED <<data, pre, orig>>

\* combine_bytes(&split_bytes(chunk))
CombineSplit ==
    /\ op = "split_bytes"
    /\ op' = "split_combine"
    /\ orig' = data
    /\ data' = out
    /\ out' = combine_bytes(out)
    /\ UNCHANGED <<pre, res>>

\* split_bytes(&combine_bytes(chunk))
SplitCombined ==
    /\ op = "combine_bytes"
    /\ op' = "combine_split"
    /\ orig' = data
    /\ data' = out
    /\ out' = split_bytes(out)
    /\ UNCHANGED <<pre, res>>

NextPacker == SplitBytes \/ CombineBytes \/ CombineSplit \/ SplitCombined

SpecPacker == InitPacker /\ [][NextPacker]_vars

---------------------------------------------------------------------------
(* What the claims are stated against: the standard base64 table and the   *)
(* regrouping of 24 bits written with plain division and remainder.        *)

\* "ABCDEFGHIJKLMNOPQRSTUVWXYZabcdefghijklmnopqrstuvwxyz0123456789+/"
StdTable ==
    << 65, 66, 67, 68, 69, 70, 71, 72, 73, 74, 75, 76, 77,
       78, 79, 80, 81, 82, 83, 84, 85, 86, 87, 88, 89, 90,
       97, 98, 99, 100, 101, 102, 103, 104, 105, 106, 107, 108, 109,
       110, 111, 112, 113, 114, 115, 116, 117, 118, 119, 120, 121, 122,
       48, 49, 50, 51, 52, 53, 54, 55, 56, 57, 43, 47 >>

\* T[i] for i in 0..63
T(i) == StdTable[i + 1]

Alphabet == {StdTable[i] : i \in 1..64}

\* the position of an alphabet byte in the table
TableIndex(c) == CHOOSE i \in 0..63 : T(i) = c

\* the four characters of the 3 bytes b0 b1 b2
RefEncode(b0, b1, b2) ==
    << T(b0 \div 4),
       T((b0 % 4) * 16 + b1 \div 16),
       T((b1 % 16) * 4 + b2 \div 64),
       T(b2 % 64) >>

\* the three bytes of the 4 alphabet characters c0 c1 c2 c3
RefDecode(c0, c1, c2, c3) ==
    LET i0 == TableIndex(c0)
        i1 == TableIndex(c1)
        i2 == TableIndex(c2)
        i3 == TableIndex(c3)
    IN  << i0 * 4 + i1 \div 16,
           (i1 % 16) * 16 + i2 \div 4,
           (i2 % 4) * 64 + i3 >>

IsEncodeCall == op \in {"encode", "decode_encode"}

IsDecodeCall == op \in {"decode", "encode_decode"}

EncOutLenOk == Len(pre) = (Len(data) * 4) \div 3

DecOutLenOk == Len(pre) = (Len(data) * 3) \div 4

\* the chunk (0-based) of the text d that holds its first byte outside the alphabet
FirstBadChunk(d) ==
    LET first == CHOOSE i \in 1..Len(d) :
                     /\ d[i] \notin Alphabet
                     /\ \A h \in 1..(i - 1) : d[h] \in Alphabet
    IN  (first - 1) \div 4

---------------------------------------------------------------------------
(* The claims. *)

\* C1: round trip.  For every byte sequence b whose length is a multiple of
\* 3, encode into a slice of len(b)*4/3 bytes succeeds, and decoding that
\* text into a slice of len(b) bytes succeeds and yields b byte for byte.
C1_RoundTrip ==
    /\ (op = "encode" /\ Len(data) % 3 = 0 /\ EncOutLenOk) => res = OkStr
    /\ (op = "encode_decode" /\ Len(pre) = Len(orig)) => (res = OkStr /\ out = orig)

C1_Witness ==
    /\ op = "encode_decode"
    /\ orig = <<0, 1, 2, 255, 2, 255>>
    /\ pre = <<170, 170, 170, 170, 170, 170>>
    /\ res = OkStr
    /\ out = orig

\* C2 as stated: encode (decode) succeeds only with an output slice of
\* len(input)*4/3 (len(input)*3/4) bytes, and every call whose output length
\* does not match fails with the output-length error, the output untouched.
C2_AsStated ==
    /\ IsEncodeCall =>
         /\ res = OkStr => EncOutLenOk
         /\ ~EncOutLenOk => (res = ErrEncOutputLen /\ out = pre)
    /\ IsDecodeCall =>
         /\ res = OkStr => DecOutLenOk
         /\ ~DecOutLenOk => (res = ErrDecOutputLen /\ out = pre)

\* C2, amended: encode (decode) succeeds only with an output slice of
\* len(input)*4/3 (len(input)*3/4) bytes; a call whose output length does not
\* match fails with the output untouched, with the output-length error when
\* the input length is a multiple of 3 (4) and with the input-length error
\* otherwise.
C2_LengthContract ==
    /\ IsEncodeCall =>
         /\ res = OkStr => EncOutLenOk
         /\ ~EncOutLenOk =>
              /\ out = pre
              /\ res = IF Len(data) % 3 = 0 THEN ErrEncOutputLen ELSE ErrEncInputLen
    /\ IsDecodeCall =>
         /\ res = OkStr => DecOutLenOk
         /\ ~DecOutLenOk =>
              /\ out = pre
              /\ res = IF Len(data) % 4 = 0 THEN ErrDecOutputLen ELSE ErrDecInputLen

C2_Witness ==
    /\ op = "decode"
    /\ data = <<47, 66, 47, 66>>
    /\ pre = <<170, 170, 170, 170>>
    /\ res = ErrDecOutputLen
    /\ out = pre

\* C3: an encode input whose length is not divisible by 3, and a decode input
\* whose length is not divisible by 4, fails with the input-length error
\* whatever the output slice, and the output slice is left unchanged.
C3_InvalidInputLength ==
    /\ (IsEncodeCall /\ Len(data) % 3 # 0) => (res = ErrEncInputLen /\ out = pre)
    /\ (IsDecodeCall /\ Len(data) % 4 # 0) => (res = ErrDecInputLen /\ out = pre)

C3_Witness ==
    /\ op = "encode"
    /\ Len(data) = 4
    /\ Len(pre) = 3
    /\ res = ErrEncInputLen
    /\ out = pre

\* C4: a decode input whose length is a multiple of 4, with an output slice
\* of the right length, that holds a byte outside the alphabet at any
\* position fails with the invalid-character error.
C4_InvalidCharacter ==
    ( /\ IsDecodeCall
      /\ Len(data) % 4 = 0
      /\ DecOutLenOk
      /\ \E i \in 1..Len(data) : data[i] \notin Alphabet )
    => res = ErrInvalidChar

C4_Witness ==
    /\ op = "decode"
    /\ data = <<47, 66, 47, 66, 66, 47, 66, 61>>
    /\ Len(pre) = 6
    /\ res = ErrInvalidChar

\* C5: index_to_char succeeds exactly on 0..63 and char_to_index exactly on
\* the alphabet, with values in 0..63; each undoes the other.
C5_Bijection ==
    /\ op = "index_to_char" =>
         IF data[1] \in 0..63 THEN res = OkStr /\ out[1] \in Alphabet
         ELSE res = ErrInvalidIndex
    /\ op = "index_to_char_to_index" => (res = OkStr /\ out = orig)
    /\ op = "char_to_index" =>
         IF data[1] \in Alphabet THEN res = OkStr /\ out[1] \in 0..63
         ELSE res = ErrInvalidChar
    /\ op = "char_to_index_to_char" => (res = OkStr /\ out = orig)

C5_Witness ==
    /\ op = "index_to_char_to_index"
    /\ orig = <<63>>
    /\ data = <<47>>
    /\ out = <<63>>

\* C6: a successful encode writes, for each chunk j, the four characters the
\* standard table gives for input bytes 3j..3j+2; [0,1,2] encodes to "AAEC";
\* every output byte is in the alphabet.
C6_StandardTable ==
    (IsEncodeCall /\ res = OkStr) =>
        /\ \A j \in 0..(Len(data) \div 3 - 1) :
             Slice(out, 4 * j, 4)
                 = RefEncode(data[3 * j + 1], data[3 * j + 2], data[3 * j + 3])
        /\ \A i \in 1..Len(out) : out[i] \in Alphabet
        /\ data = <<0, 1, 2>> => out = <<65, 65, 69, 67>>

C6_Witness ==
    /\ op = "encode"
    /\ data = <<0, 1, 2>>
    /\ pre = <<0, 0, 0, 0>>
    /\ res = OkStr
    /\ out = <<65, 65, 69, 67>>

\* C7: when decode fails on an invalid character whose first occurrence is
\* in chunk k, output bytes 0..3k-1 hold the decoding of chunks 0..k-1 and
\* every output byte from 3k on holds the value it had before the call.
C7_PartialOverwrite ==
    (IsDecodeCall /\ res = ErrInvalidChar) =>
        LET k == FirstBadChunk(data)
        IN  /\ Len(out) = Len(pre)
            /\ \A j \in 0..(k - 1) :
                 Slice(out, 3 * j, 3)
                     = RefDecode(data[4 * j + 1], data[4 * j + 2],
                                 data[4 * j + 3], data[4 * j + 4])
            /\ \A i \in (3 * k + 1)..Len(out) : out[i] = pre[i]

C7_Witness ==
    /\ op = "decode"
    /\ data = <<47, 66, 47, 66, 66, 47, 61, 47>>
    /\ pre = <<170, 170, 170, 170, 170, 170>>
    /\ res = ErrInvalidChar
    /\ out = <<252, 31, 193, 170, 170, 170>>

\* C8: on every encode call with an input length that is a multiple of 3 and
\* an output slice of len(input)*4/3 bytes, every value split_bytes produces
\* is in 0..63, the call succeeds and every output byte is overwritten; no
\* encode call returns the invalid-index error.
C8_EncodeTotal ==
    IsEncodeCall =>
        /\ res # ErrInvalidIndex
        /\ (Len(data) % 3 = 0 /\ EncOutLenOk) =>
             /\ \A j \in 0..(Len(data) \div 3 - 1) :
                  \A i \in 1..4 : split_bytes(Slice(data, 3 * j, 3))[i] \in 0..63
             /\ res = OkStr
             /\ Len(out) = Len(pre)
             /\ \A i \in 1..Len(out) : out[i] \in Alphabet /\ out[i] # pre[i]

C8_Witness ==
    /\ op = "encode"
    /\ data = <<255, 255, 255, 255, 255, 255>>
    /\ Len(pre) = 8
    /\ res = OkStr
    /\ out = <<47, 47, 47, 47, 47, 47, 47, 47>>

\* C9: combine_bytes undoes split_bytes on every 3 bytes, and split_bytes
\* undoes combine_bytes on every 4 values in 0..63.
C9_PackerInverse ==
    /\ op = "split_combine" => out = orig
    /\ (op = "combine_split" /\ \A i \in 1..4 : orig[i] \in 0..63) => out = orig

C9_Witness ==
    /\ op = "split_combine"
    /\ orig = <<255, 170, 85>>
    /\ data = <<63, 58, 41, 21>>
    /\ out = orig

\* C10: reverse round trip.  Every text over the alphabet whose length is a
\* multiple of 4 decodes into a slice of len*3/4 bytes, and encoding those
\* bytes into a slice of the text's length succeeds and yields the text.
C10_ReverseRoundTrip ==
    /\ ( /\ op = "decode"
         /\ Len(data) % 4 = 0
         /\ DecOutLenOk
         /\ \A i \in 1..Len(data) : data[i] \in Alphabet ) => res = OkStr
    /\ (op = "decode_encode" /\ Len(pre) = Len(orig)) => (res = OkStr /\ out = orig)

C10_Witness ==
    /\ op = "decode_encode"
    /\ orig = <<47, 66, 47, 66, 66, 47, 66, 47>>
    /\ Len(data) = 6
    /\ res = OkStr
    /\ out = orig

=============================================================================
